---------------------------- MODULE Spec2Model ----------------------------
(***************************************************************************)
(* Model of bindings/canvas_kit/tvgWasmCanvasKit.cpp, built with the       *)
(* software, GL and WebGPU rasterizers all compiled in                     *)
(* (THORVG_SW_RASTER_SUPPORT, THORVG_GL_RASTER_SUPPORT,                    *)
(* THORVG_WG_RASTER_SUPPORT defined).                                      *)
(*                                                                         *)
(* Part 1: the process-wide WebGPU state (instance, adapter, device and    *)
(* the three flags), init(), term() and the completion callbacks of the    *)
(* adapter/device requests.  A request is issued by init(), stays in       *)
(* flight until the host's event loop invokes its callback (strictly after *)
(* the issuing call returned, exactly once, never cancelled), and the      *)
(* callback writes through the pointer to the global it was given.         *)
(*                                                                         *)
(* Part 2: one ThorVGEngine object (createCanvas, resize, clear, render,   *)
(* size, the destructor).                                                  *)
(*                                                                         *)
(* Handles and pointers are positive integers, 0 is the null handle.       *)
(***************************************************************************)
EXTENDS Integers, Sequences, FiniteSets, TLC

\* ------------------------------------------------------------------ bounds
\* WebGPU handles (instances, adapters, devices) the process may create.
MaxHandles == 6
\* Objects (canvases, pixel buffers, GL contexts, surfaces) one ThorVGEngine
\* object may obtain.
MaxObjects == 3
\* createCanvas calls on one ThorVGEngine object.
MaxCreates == 2

\* ------------------------------------------------------- WebGPU global state
VARIABLES
    instance,              \* static WGPUInstance instance{}
    adapter,               \* static WGPUAdapter adapter{}
    device,                \* static WGPUDevice device{}
    adapterRequested,      \* static bool adapterRequested
    deviceRequested,       \* static bool deviceRequested
    initializationFailed,  \* static bool initializationFailed
    inflight,              \* requests whose callback has not run yet
    nextId,                \* number of WebGPU handles handed out so far
    origin,                \* handle -> the handle it was obtained from (0: none)
    released,              \* handle -> number of wgpu*Release calls on it
    fresh,                 \* a fresh process run in lockstep since the last term()
    lastInit,              \* what init() returned last (-1: not called since
                           \* the process started or term() ran)
    delivered,             \* handles a successful callback has delivered
    \* ------------------------------------------------ one ThorVGEngine object
    alive,                 \* constructed and not yet destroyed
    canvas,                \* Canvas* canvas
    canvasKind,            \* dynamic type of *canvas: "sw", "gl", "wg" ("" if none)
    buffer,                \* uint8_t* buffer
    width,                 \* uint32_t width
    height,                \* uint32_t height
    engine_type,           \* string engine_type
    surface,               \* WGPUSurface surface{}
    gl_context,            \* intptr_t gl_context
    bound,                 \* what the last target() call bound the canvas to
    nextObj,               \* number of objects the engine object obtained so far
    freed,                 \* object -> number of times it was released
    objKind,               \* object -> "canvas", "buffer", "gl", "surface" ("": none)
    creates,               \* number of createCanvas calls on the object
    setups,                \* number of Initializer::init() calls that succeeded
    teardowns,             \* number of Initializer::term() calls
    \* ------------------------------------------------------- the last call
    op,                    \* name of the last operation
    args,                  \* its arguments
    ret,                   \* its return value
    effects                \* the external calls it made, in order

gpuVars == <<instance, adapter, device, adapterRequested, deviceRequested,
             initializationFailed, inflight, nextId, origin, released, fresh,
             lastInit, delivered>>
engVars == <<alive, canvas, canvasKind, buffer, width, height, engine_type,
             surface, gl_context, bound, nextObj, freed, objKind, creates,
             setups, teardowns>>
callVars == <<op, args, ret, effects>>

Handles == 1..MaxHandles

\* Return values of init() (line 60: 0 = ready, 1 = failed, 2 = pending).
Ready == 0
Failed == 1
Pending == 2

\* The six globals as one value, so that the same code can be run on the
\* process and on the lockstep fresh process.
Ctx == [instance |-> instance, adapter |-> adapter, device |-> device,
        adapterRequested |-> adapterRequested,
        deviceRequested |-> deviceRequested,
        initializationFailed |-> initializationFailed]

\* Lines 43-48: the static initializers.
InitialCtx == [instance |-> 0, adapter |-> 0, device |-> 0,
               adapterRequested |-> FALSE, deviceRequested |-> FALSE,
               initializationFailed |-> FALSE]

\* ------------------------------------------------------------------- init()
\* Line 63: if (initializationFailed) return 1;
\* (Variant without the check: a failure would not stop init().)
AlreadyFailed_Ignored(c) == FALSE
AlreadyFailed(c) == c.initializationFailed

\* Lines 66-68: the instance is created when absent; n is the handle
\* wgpuCreateInstance would return.
WithInstance(c, n) ==
    IF c.instance = 0 THEN [c EXCEPT !.instance = n] ELSE c

\* Lines 74-95: issue the adapter request on the instance, mark it requested.
\* The request carries the handle the callback will deliver on success.
RequestAdapter(c, n) ==
    [ctx |-> [c EXCEPT !.adapterRequested = TRUE],
     ret |-> Pending,
     req |-> {[kind |-> "adapter", id |-> n, on |-> c.instance, stale |-> FALSE]}]

\* Lines 101-126: issue the device request on the adapter, mark it requested.
\* (Variant that forgets line 124, deviceRequested = true.)
RequestDevice_Unmarked(c, n) ==
    [ctx |-> c,
     ret |-> Pending,
     req |-> {[kind |-> "device", id |-> n, on |-> c.adapter, stale |-> FALSE]}]
RequestDevice(c, n) ==
    [ctx |-> [c EXCEPT !.deviceRequested = TRUE],
     ret |-> Pending,
     req |-> {[kind |-> "device", id |-> n, on |-> c.adapter, stale |-> FALSE]}]

NoRequest(c, r) == [ctx |-> c, ret |-> r, req |-> {}]

\* Lines 61-131.  c: the globals; n: the number of handles handed out.
\* Result: the globals afterwards, the return value, the request issued.
InitStep(c, n) ==
    IF AlreadyFailed(c) THEN NoRequest(c, Failed)
    ELSE LET c1 == WithInstance(c, n + 1)
             n1 == IF c.instance = 0 THEN n + 1 ELSE n
         IN  IF c1.adapter = 0
             THEN IF c1.adapterRequested THEN NoRequest(c1, Pending)
                  ELSE RequestAdapter(c1, n1 + 1)
             ELSE IF c1.deviceRequested
                  THEN NoRequest(c1, IF c1.device = 0 THEN Pending ELSE Ready)
                  ELSE IF c1.device = 0 THEN RequestDevice(c1, n1 + 1)
                       ELSE NoRequest(c1, Ready)

\* Handles InitStep consumed: the instance, the handle reserved for a request.
HandlesUsed(c, s) ==
    (IF c.instance = 0 /\ s.ctx.instance # 0 THEN 1 ELSE 0) + Cardinality(s.req)

\* The external calls of one init(), in order.
InitEffects(c, s) ==
    (IF c.instance = 0 /\ s.ctx.instance # 0
        THEN <<<<"wgpuCreateInstance", s.ctx.instance>>>> ELSE <<>>)
    \o (IF s.req = {} THEN <<>>
        ELSE LET r == CHOOSE r \in s.req : TRUE
             IN  <<<<(IF r.kind = "adapter" THEN "wgpuInstanceRequestAdapter"
                      ELSE "wgpuAdapterRequestDevice"), r.on>>>>)

\* ------------------------------------------------------ completion callbacks
\* Lines 74-82: onAdapterRequestEnded(status, adapter, ..., userdata1 = &adapter).
onAdapterRequestEnded(c, success, h) ==
    IF ~success THEN [c EXCEPT !.initializationFailed = TRUE]
    ELSE [c EXCEPT !.adapter = h]

\* Lines 104-111: onDeviceRequestEnded(status, device, ..., userdata1 = &device).
\* (Variant without line 107: a failure is not recorded.)
onDeviceRequestEnded_Unrecorded(c, success, h) ==
    IF ~success THEN c
    ELSE [c EXCEPT !.device = h]
onDeviceRequestEnded(c, success, h) ==
    IF ~success THEN [c EXCEPT !.initializationFailed = TRUE]
    ELSE [c EXCEPT !.device = h]

Callback(c, kind, success, h) ==
    IF kind = "adapter" THEN onAdapterRequestEnded(c, success, h)
    ELSE onDeviceRequestEnded(c, success, h)

\* ------------------------------------------------------------------- term()
\* Lines 136-138: the releases, in program order.
\* (Variant with lines 136 and 137 exchanged.)
TermReleases_AdapterFirst(c) ==
    (IF c.adapter # 0 THEN <<<<"wgpuAdapterRelease", c.adapter>>>> ELSE <<>>)
    \o (IF c.device # 0 THEN <<<<"wgpuDeviceRelease", c.device>>>> ELSE <<>>)
    \o (IF c.instance # 0 THEN <<<<"wgpuInstanceRelease", c.instance>>>> ELSE <<>>)
TermReleases(c) ==
    (IF c.device # 0 THEN <<<<"wgpuDeviceRelease", c.device>>>> ELSE <<>>)
    \o (IF c.adapter # 0 THEN <<<<"wgpuAdapterRelease", c.adapter>>>> ELSE <<>>)
    \o (IF c.instance # 0 THEN <<<<"wgpuInstanceRelease", c.instance>>>> ELSE <<>>)

\* Lines 139-144: the resets.
TermReset(c) ==
    [instance |-> 0, adapter |-> 0, device |-> 0,
     adapterRequested |-> FALSE, deviceRequested |-> FALSE,
     initializationFailed |-> FALSE]

\* ----------------------------------------------------- the lockstep process
\* A fresh process (static initializers, nothing in flight) that is restarted
\* at every term(), runs every later init(), and receives the completion of
\* every request the real process issued after that term(), with the same
\* outcome.  It never sees the completion of a request issued before the
\* term().  Its handles are the real process's.
FreshStart == [ctx |-> InitialCtx, pending |-> {}, ret |-> -1, issued |-> {}]

FreshInit(f, n) ==
    LET s == InitStep(f.ctx, n)
    IN  [ctx |-> s.ctx,
         pending |-> f.pending \cup {r.kind : r \in s.req},
         ret |-> s.ret,
         issued |-> {r.kind : r \in s.req}]

FreshCallback(f, r, success) ==
    IF r.stale \/ r.kind \notin f.pending THEN f
    ELSE [f EXCEPT !.ctx = Callback(f.ctx, r.kind, success, r.id),
                   !.pending = f.pending \ {r.kind}]

\* ------------------------------------------------------------------ actions
SetCtx(c) ==
    /\ instance' = c.instance
    /\ adapter' = c.adapter
    /\ device' = c.device
    /\ adapterRequested' = c.adapterRequested
    /\ deviceRequested' = c.deviceRequested
    /\ initializationFailed' = c.initializationFailed

init ==
    /\ nextId + 2 <= MaxHandles
    /\ LET s == InitStep(Ctx, nextId)
       IN  /\ SetCtx(s.ctx)
           /\ inflight' = inflight \cup s.req
           /\ nextId' = nextId + HandlesUsed(Ctx, s)
           /\ origin' = [h \in Handles |->
                            IF \E r \in s.req : r.id = h
                            THEN (CHOOSE r \in s.req : r.id = h).on
                            ELSE origin[h]]
           /\ fresh' = FreshInit(fresh, nextId)
           /\ lastInit' = s.ret
           /\ op' = "init"
           /\ args' = <<>>
           /\ ret' = s.ret
           /\ effects' = InitEffects(Ctx, s)
    /\ UNCHANGED <<released, delivered, engVars>>

\* The host invokes the callback of an in-flight request.
complete ==
    \E r \in inflight, success \in BOOLEAN :
        /\ SetCtx(Callback(Ctx, r.kind, success, r.id))
        /\ inflight' = inflight \ {r}
        /\ fresh' = FreshCallback(fresh, r, success)
        /\ delivered' = IF success THEN delivered \cup {r.id} ELSE delivered
        /\ op' = "callback"
        /\ args' = <<r.kind, success, r.id>>
        /\ ret' = 0
        /\ effects' = <<>>
        /\ UNCHANGED <<nextId, origin, released, lastInit, engVars>>

term ==
    /\ SetCtx(TermReset(Ctx))
    /\ released' = [h \in Handles |->
                       released[h]
                       + Cardinality({i \in 1..Len(TermReleases(Ctx)) :
                                         TermReleases(Ctx)[i][2] = h})]
    /\ inflight' = {[r EXCEPT !.stale = TRUE] : r \in inflight}
    /\ fresh' = FreshStart
    /\ lastInit' = -1
    /\ op' = "term"
    /\ args' = <<>>
    /\ ret' = 0
    /\ effects' = TermReleases(Ctx)
    /\ UNCHANGED <<nextId, origin, delivered, engVars>>

\* ============================================================ ThorVGEngine
Objects == 1..MaxObjects

\* Backend names passed to createCanvas; "xyz" matches no compiled-in branch.
Engines == {"sw", "gl", "wg", "xyz"}

\* uint32_t dimensions passed by the caller; 32768 * 32768 * 4 = 2^32.
Dims == {1, 32768}

\* uint32_t arithmetic: w * h * 4 (lines 207, 285, 320), that is
\* (w * h * 4) mod 2^32 = 4 * ((w * h) mod 2^30), for w * h below 2^31.
Bytes(w, h) == ((w * h) % 1073741824) * 4

\* Line 274: if (!canvas) return false;
\* (Variant without the check.)
NoTarget_Missing == FALSE
NoTarget == canvas = 0

\* Lines 334-336: getCanvas().
GetCanvas == canvas

\* Line 338: getEngineType().
GetEngineType == engine_type

\* Lines 326-331: size().
SizeValue == <<width, height>>

\* Lines 312-314: what clear() returns.
\* (Variant without the check of canvas.)
ClearResult_AlwaysTrue == TRUE
ClearResult == canvas # 0

\* Line 275: if (width == w && height == h) return true;
\* (Variant comparing width with h and height with w.)
SameSize_Swapped(w, h) == width = h /\ height = w
SameSize(w, h) == width = w /\ height = h

\* Line 319: if (buffer && engine_type == "sw")
\* (Variant without the null check of buffer.)
HasView_NoNullCheck == engine_type = "sw"
HasView == buffer # 0 /\ engine_type = "sw"

\* Lines 318-323: the typed_memory_view (length, data) or undefined (<<>>).
RenderValue ==
    IF HasView THEN <<Bytes(width, height), buffer>> ELSE <<>>

\* The bindings target() establishes (lines 214-216/287-289, 239-241/294-296,
\* 262-264/301-303).
SwTarget(b, w, h) == [kind |-> "sw", data |-> <<b>>, stride |-> w, w |-> w, h |-> h]
GlTarget(w, h) == [kind |-> "gl", data |-> <<gl_context>>, stride |-> 0, w |-> w, h |-> h]
WgTarget(s, w, h) ==
    [kind |-> "wg", data |-> <<device, instance, s>>, stride |-> 0, w |-> w, h |-> h]
Unbound == [kind |-> "", data |-> <<>>, stride |-> 0, w |-> 0, h |-> 0]

Release(objs) == [o \in Objects |-> freed[o] + (IF o \in objs THEN 1 ELSE 0)]

\* The objects obtained by a call become known with their kinds; new is a
\* set of <<object, kind>>.
Obtain(new) ==
    objKind' = [o \in Objects |->
                   IF \E n \in new : n[1] = o
                   THEN (CHOOSE n \in new : n[1] = o)[2]
                   ELSE objKind[o]]

Returns(name, a, r, e) ==
    /\ op' = name
    /\ args' = a
    /\ ret' = r
    /\ effects' = e

\* Lines 195-200: Initializer::init() succeeded (1; 0 when it failed), then
\* the default font is loaded.
Setup == <<<<"Initializer::init", 1>>, <<"Text::load", 0>>>>

\* Lines 202-218: the "sw" branch.  genOk: SwCanvas::gen() returned an
\* object; mallocOk: malloc returned a block.
createSw(w, h, genOk, mallocOk) ==
    LET c == nextObj + 1
        b == nextObj + 2
    IN  IF ~genOk
        THEN /\ canvas' = 0
             /\ canvasKind' = ""
             /\ Returns("createCanvas", <<"sw", w, h>>, 0, Setup)
             /\ UNCHANGED <<buffer, bound, nextObj, freed, objKind>>
        ELSE IF ~mallocOk
        THEN /\ buffer' = 0
             /\ canvas' = 0
             /\ canvasKind' = ""
             /\ nextObj' = c
             /\ freed' = Release({c})
             /\ Obtain({<<c, "canvas">>})
             /\ Returns("createCanvas", <<"sw", w, h>>, 0,
                        Setup \o <<<<"malloc", Bytes(w, h)>>, <<"delete", c>>>>)
             /\ UNCHANGED bound
        ELSE /\ canvas' = c
             /\ canvasKind' = "sw"
             /\ buffer' = b
             /\ bound' = SwTarget(b, w, h)
             /\ nextObj' = b
             /\ Obtain({<<c, "canvas">>, <<b, "buffer">>})
             /\ Returns("createCanvas", <<"sw", w, h>>, c,
                        Setup \o <<<<"malloc", Bytes(w, h)>>, <<"target", b>>>>)
             /\ UNCHANGED freed

\* Lines 220-242: the "gl" branch.  ctxOk: emscripten_webgl_create_context
\* returned a context; genOk: GlCanvas::gen() returned an object.
createGl(w, h, ctxOk, genOk) ==
    LET g == nextObj + 1
        c == nextObj + 2
    IN  IF ~ctxOk
        THEN /\ gl_context' = 0
             /\ Returns("createCanvas", <<"gl", w, h>>, 0, Setup)
             /\ UNCHANGED <<canvas, canvasKind, bound, nextObj, objKind>>
        ELSE IF ~genOk
        THEN /\ gl_context' = g
             /\ canvas' = 0
             /\ canvasKind' = ""
             /\ nextObj' = g
             /\ Obtain({<<g, "gl">>})
             /\ Returns("createCanvas", <<"gl", w, h>>, 0, Setup)
             /\ UNCHANGED bound
        ELSE /\ gl_context' = g
             /\ canvas' = c
             /\ canvasKind' = "gl"
             /\ bound' = [GlTarget(w, h) EXCEPT !.data = <<g>>]
             /\ nextObj' = c
             /\ Obtain({<<g, "gl">>, <<c, "canvas">>})
             /\ Returns("createCanvas", <<"gl", w, h>>, c, Setup \o <<<<"target", g>>>>)

\* Lines 245-265: the "wg" branch.  surfOk: wgpuInstanceCreateSurface
\* returned a surface; genOk: WgCanvas::gen() returned an object.  The
\* globals instance and device are used as they are, without a look at
\* init()'s state; what wgpuInstanceCreateSurface does with a null instance
\* is the library's choice, so both outcomes are kept.
createWg(w, h, surfOk, genOk) ==
    LET s == nextObj + 1
        c == nextObj + 2
    IN  IF ~surfOk
        THEN /\ surface' = 0
             /\ Returns("createCanvas", <<"wg", w, h>>, 0,
                        Setup \o <<<<"wgpuInstanceCreateSurface", instance>>>>)
             /\ UNCHANGED <<canvas, canvasKind, bound, nextObj, objKind>>
        ELSE IF ~genOk
        THEN /\ surface' = s
             /\ canvas' = 0
             /\ canvasKind' = ""
             /\ nextObj' = s
             /\ Obtain({<<s, "surface">>})
             /\ Returns("createCanvas", <<"wg", w, h>>, 0,
                        Setup \o <<<<"wgpuInstanceCreateSurface", instance>>>>)
             /\ UNCHANGED bound
        ELSE /\ surface' = s
             /\ canvas' = c
             /\ canvasKind' = "wg"
             /\ bound' = WgTarget(s, w, h)
             /\ nextObj' = c
             /\ Obtain({<<s, "surface">>, <<c, "canvas">>})
             /\ Returns("createCanvas", <<"wg", w, h>>, c,
                        Setup \o <<<<"wgpuInstanceCreateSurface", instance>>,
                          <<"target", s>>>>)

\* Lines 189-270.  initOk: Initializer::init() returned Result::Success.
createCanvas ==
    \E engine \in Engines, w \in Dims, h \in Dims, initOk \in BOOLEAN :
        /\ alive
        /\ creates < MaxCreates
        /\ creates' = creates + 1
        /\ setups' = setups + (IF initOk THEN 1 ELSE 0)
        /\ engine_type' = engine
        /\ width' = w
        /\ height' = h
        /\ IF ~initOk
           THEN /\ Returns("createCanvas", <<engine, w, h>>, 0,
                           <<<<"Initializer::init", 0>>>>)
                /\ UNCHANGED <<canvas, canvasKind, buffer, surface, gl_context,
                               bound, nextObj, freed, objKind>>
           ELSE CASE engine = "sw" ->
                       /\ nextObj + 2 <= MaxObjects
                       /\ \E genOk \in BOOLEAN, mallocOk \in BOOLEAN :
                             createSw(w, h, genOk, mallocOk)
                       /\ UNCHANGED <<surface, gl_context>>
                  [] engine = "gl" ->
                       /\ nextObj + 2 <= MaxObjects
                       /\ \E ctxOk \in BOOLEAN, genOk \in BOOLEAN :
                             createGl(w, h, ctxOk, genOk)
                       /\ UNCHANGED <<buffer, surface, freed>>
                  [] engine = "wg" ->
                       /\ nextObj + 2 <= MaxObjects
                       /\ \E surfOk \in BOOLEAN, genOk \in BOOLEAN :
                             createWg(w, h, surfOk, genOk)
                       /\ UNCHANGED <<buffer, gl_context, freed>>
                  [] OTHER ->
                       /\ Returns("createCanvas", <<engine, w, h>>, canvas, Setup)
                       /\ UNCHANGED <<canvas, canvasKind, buffer, surface,
                                      gl_context, bound, nextObj, freed, objKind>>
        /\ UNCHANGED <<alive, teardowns, gpuVars>>

\* What a target() call through static_cast<T*>(canvas) leaves the canvas
\* bound to: the new binding when *canvas is a T; when it is not, the call
\* is undefined and either outcome is kept.
Rebind(kind, new) == IF canvasKind = kind THEN {new} ELSE {new, bound}

\* Lines 282-291: the "sw" branch of resize.
resizeSw(w, h, mallocOk) ==
    LET b == nextObj + 1
        old == IF buffer = 0 THEN {} ELSE {buffer}
    IN  /\ freed' = Release(old)
        /\ IF ~mallocOk
           THEN /\ buffer' = 0
                /\ Returns("resize", <<w, h>>, FALSE,
                           <<<<"sync", canvas>>, <<"free", buffer>>,
                             <<"malloc", Bytes(w, h)>>>>)
                /\ UNCHANGED <<bound, nextObj, objKind>>
           ELSE /\ buffer' = b
                /\ nextObj' = b
                /\ Obtain({<<b, "buffer">>})
                /\ bound' \in Rebind("sw", SwTarget(b, w, h))
                /\ Returns("resize", <<w, h>>, TRUE,
                           <<<<"sync", canvas>>, <<"free", buffer>>,
                             <<"malloc", Bytes(w, h)>>, <<"target", b>>>>)

\* Lines 273-308.
resize ==
    \E w \in Dims, h \in Dims :
        /\ alive
        /\ IF NoTarget
           THEN /\ Returns("resize", <<w, h>>, FALSE, <<>>)
                /\ UNCHANGED <<width, height, buffer, bound, nextObj, freed, objKind>>
           ELSE IF SameSize(w, h)
           THEN /\ Returns("resize", <<w, h>>, TRUE, <<>>)
                /\ UNCHANGED <<width, height, buffer, bound, nextObj, freed, objKind>>
           ELSE /\ width' = w
                /\ height' = h
                /\ CASE engine_type = "sw" ->
                          /\ nextObj + 1 <= MaxObjects
                          /\ \E mallocOk \in BOOLEAN : resizeSw(w, h, mallocOk)
                     [] engine_type = "gl" ->
                          /\ bound' \in Rebind("gl", GlTarget(w, h))
                          /\ Returns("resize", <<w, h>>, TRUE,
                                     <<<<"sync", canvas>>, <<"target", gl_context>>>>)
                          /\ UNCHANGED <<buffer, nextObj, freed, objKind>>
                     [] engine_type = "wg" ->
                          /\ bound' \in Rebind("wg", WgTarget(surface, w, h))
                          /\ Returns("resize", <<w, h>>, TRUE,
                                     <<<<"sync", canvas>>, <<"target", surface>>>>)
                          /\ UNCHANGED <<buffer, nextObj, freed, objKind>>
                     [] OTHER ->
                          /\ Returns("resize", <<w, h>>, TRUE, <<<<"sync", canvas>>>>)
                          /\ UNCHANGED <<buffer, bound, nextObj, freed, objKind>>
        /\ UNCHANGED <<alive, canvas, canvasKind, engine_type, surface,
                       gl_context, creates, setups, teardowns, gpuVars>>

\* Lines 311-315.
clear ==
    /\ alive
    /\ Returns("clear", <<>>, ClearResult,
               IF canvas = 0 THEN <<>> ELSE <<<<"remove", canvas>>>>)
    /\ UNCHANGED <<engVars, gpuVars>>

\* Lines 318-323.
render ==
    /\ alive
    /\ Returns("render", <<>>, RenderValue, <<>>)
    /\ UNCHANGED <<engVars, gpuVars>>

\* Lines 326-331.
size ==
    /\ alive
    /\ Returns("size", <<>>, SizeValue, <<>>)
    /\ UNCHANGED <<engVars, gpuVars>>

\* Lines 170-184: what the destructor releases.
\* (Variant without lines 175-177, the release of the surface.)
DestroyReleases_NoSurface == {canvas, buffer, gl_context} \ {0}
DestroyReleases == {canvas, buffer, surface, gl_context} \ {0}

\* Lines 169-185: ~ThorVGEngine().
DestroyEffects ==
    (IF canvas \in DestroyReleases THEN <<<<"delete", canvas>>>> ELSE <<>>)
    \o (IF buffer \in DestroyReleases THEN <<<<"free", buffer>>>> ELSE <<>>)
    \o <<<<"Initializer::term", 0>>>>
    \o (IF surface \in DestroyReleases
           THEN <<<<"wgpuSurfaceRelease", surface>>>> ELSE <<>>)
    \o (IF gl_context \in DestroyReleases
           THEN <<<<"emscripten_webgl_destroy_context", gl_context>>>> ELSE <<>>)

destroy ==
    /\ alive
    /\ alive' = FALSE
    /\ freed' = Release(DestroyReleases)
    /\ teardowns' = teardowns + 1
    /\ gl_context' = 0
    /\ Returns("destroy", <<>>, 0, DestroyEffects)
    /\ UNCHANGED <<canvas, canvasKind, buffer, width, height, engine_type,
                   surface, bound, nextObj, objKind, creates, setups, gpuVars>>

\* ==================================================================== system
vars == <<gpuVars, engVars, callVars>>

Init ==
    /\ instance = InitialCtx.instance
    /\ adapter = InitialCtx.adapter
    /\ device = InitialCtx.device
    /\ adapterRequested = InitialCtx.adapterRequested
    /\ deviceRequested = InitialCtx.deviceRequested
    /\ initializationFailed = InitialCtx.initializationFailed
    /\ inflight = {}
    /\ nextId = 0
    /\ origin = [h \in Handles |-> 0]
    /\ released = [h \in Handles |-> 0]
    /\ fresh = FreshStart
    /\ lastInit = -1
    /\ delivered = {}
    /\ alive = TRUE
    /\ canvas = 0
    /\ canvasKind = ""
    /\ buffer = 0
    /\ width = 0
    /\ height = 0
    /\ engine_type = ""
    /\ surface = 0
    /\ gl_context = 0
    /\ bound = Unbound
    /\ nextObj = 0
    /\ freed = [o \in Objects |-> 0]
    /\ objKind = [o \in Objects |-> ""]
    /\ creates = 0
    /\ setups = 0
    /\ teardowns = 0
    /\ op = "start"
    /\ args = <<>>
    /\ ret = 0
    /\ effects = <<>>

Next ==
    \/ init
    \/ complete
    \/ term
    \/ createCanvas
    \/ resize
    \/ clear
    \/ render
    \/ size
    \/ destroy

Spec == Init /\ [][Next]_vars

\* The WebGPU state machine alone: init(), term() and the callbacks.
NextGPU ==
    \/ init
    \/ complete
    \/ term

SpecGPU == Init /\ [][NextGPU]_vars

\* The executions in which term() is never called: the caller polls init()
\* and creates canvases.
NextNoTerm ==
    \/ init
    \/ complete
    \/ createCanvas

SpecNoTerm == Init /\ [][NextNoTerm]_vars

\* One ThorVGEngine object, the WebGPU state left as the process starts.
NextEngine ==
    \/ createCanvas
    \/ resize
    \/ clear
    \/ render
    \/ size
    \/ destroy

SpecEngine == Init /\ [][NextEngine]_vars

\* The caller keeps polling init() (each animation frame), term() is not
\* called, and the host runs the callback of every request it was given;
\* meanwhile an engine object without canvas may be asked to resize, clear,
\* render and report its size.
NextPolling ==
    \/ init
    \/ complete
    \/ resize
    \/ clear
    \/ render
    \/ size

SpecPolling ==
    /\ Init
    /\ [][NextPolling]_vars
    /\ WF_vars(init)
    /\ WF_vars(complete)

\* ==================================================================== claims
\* The kinds of the requests the last operation issued.
IssuedKinds ==
    {IF effects[i][1] = "wgpuInstanceRequestAdapter" THEN "adapter" ELSE "device" :
        i \in {j \in 1..Len(effects) :
                  effects[j][1] \in {"wgpuInstanceRequestAdapter",
                                     "wgpuAdapterRequestDevice"}}}

\* The six globals are in the DeviceAcquired state.
DeviceAcquired ==
    /\ instance # 0
    /\ adapter # 0
    /\ device # 0
    /\ ~initializationFailed

\* C1: while term() is not called, once init() has returned Ready (0) or
\* Failed (1), every later init() returns that same value; Pending is never
\* returned after a terminal value.  Checked under SpecNoTerm.
C1_TerminalResultIsFinal ==
    [][(lastInit \in {Ready, Failed} => lastInit' = lastInit)]_vars

\* An init() that returned Ready after the device request it had issued
\* completed.
C1_Witness ==
    /\ op = "init"
    /\ ret = Ready
    /\ lastInit = Ready
    /\ deviceRequested
    /\ inflight = {}

\* C2: a populated adapter implies a populated instance, and a populated
\* device implies a populated adapter, in every reachable state.
C2_HandleOrder ==
    /\ adapter # 0 => instance # 0
    /\ device # 0 => adapter # 0

\* C3: after term(), every init() returns what it returns in a fresh process
\* whose requests complete with the same outcomes, and issues the same
\* requests, also when a request issued before the term() completes later.
C3_TermIsFullReset ==
    op = "init" => (ret = fresh.ret /\ IssuedKinds = fresh.issued)

\* C4: once initializationFailed is set, only term() clears it, and until
\* then every init() returns Failed (1) and issues no request.
C4_FailureIsSticky ==
    [][initializationFailed =>
          \/ op' = "term"
          \/ /\ initializationFailed'
             /\ op' = "init" =>
                   /\ ret' = Failed
                   /\ inflight' = inflight
                   /\ effects' = <<>>]_vars

\* An init() that returned Failed.
C4_Witness ==
    /\ op = "init"
    /\ ret = Failed
    /\ initializationFailed

\* C5: an adapter request is issued only on an existing instance, the
\* currently held one; a device request is issued only on a populated
\* adapter, the currently held one, and that adapter was obtained from the
\* currently held instance.
C5_RequestOrdering ==
    [][op' = "init" =>
          \A r \in inflight' \ inflight :
              /\ r.kind = "adapter" => (instance' # 0 /\ r.on = instance')
              /\ r.kind = "device" =>
                    /\ adapter # 0
                    /\ r.on = adapter
                    /\ origin[adapter] = instance']_vars

\* The rank of a release call in the order device, adapter, instance.
ReleaseRank(name) ==
    CASE name = "wgpuDeviceRelease" -> 1
      [] name = "wgpuAdapterRelease" -> 2
      [] name = "wgpuInstanceRelease" -> 3
      [] OTHER -> 0

\* C6: term() releases each held handle exactly once, device before adapter
\* before instance, releases nothing else, and leaves the three handles
\* empty and the three flags false; with nothing held it releases nothing
\* and leaves the initial state.
C6_TermReleasesInOrder ==
    [][op' = "term" =>
          /\ \A h \in Handles :
                released'[h] = released[h]
                               + (IF h \in {device, adapter, instance} THEN 1 ELSE 0)
          /\ Len(effects') = Cardinality({device, adapter, instance} \ {0})
          /\ \A i \in 1..Len(effects') :
                /\ ReleaseRank(effects'[i][1]) > 0
                /\ effects'[i][2] =
                      (CASE ReleaseRank(effects'[i][1]) = 1 -> device
                         [] ReleaseRank(effects'[i][1]) = 2 -> adapter
                         [] OTHER -> instance)
                /\ \A j \in 1..Len(effects') :
                      i < j => ReleaseRank(effects'[i][1]) < ReleaseRank(effects'[j][1])
          /\ instance' = 0
          /\ adapter' = 0
          /\ device' = 0
          /\ ~adapterRequested'
          /\ ~deviceRequested'
          /\ ~initializationFailed']_vars

\* A term() that released a device, an adapter and an instance.
C6_Witness ==
    /\ op = "term"
    /\ Len(effects) = 3

\* C7: createCanvas("wg", ...) returns a non-zero handle only when the
\* WebGPU state is DeviceAcquired.
C7_WgRequiresReady ==
    (op = "createCanvas" /\ args[1] = "wg" /\ ret # 0) => DeviceAcquired

\* C8: the pixel buffer is non-null exactly when the recorded backend is
\* "sw" and the object holds a canvas.
C8_BufferInvariant ==
    alive => ((buffer # 0) <=> (engine_type = "sw" /\ canvas # 0))

\* C9: resize(w, h) without a canvas returns false, resize(w, h) with the
\* recorded dimensions returns true, and in both cases nothing is called
\* (no sync, free, malloc or target) and buffer, width, height, backend,
\* binding and canvas are unchanged.
C9_ResizeNoWork ==
    [][((op' = "resize" /\ (canvas = 0 \/ (width = args'[1] /\ height = args'[2])))
          => /\ ret' = (canvas # 0)
             /\ effects' = <<>>
             /\ UNCHANGED <<buffer, width, height, engine_type, bound,
                            canvas, freed, nextObj>>)]_vars

\* A resize to the recorded dimensions of an existing target.
C9_Witness ==
    /\ op = "resize"
    /\ canvas # 0
    /\ args = <<width, height>>
    /\ ret = TRUE
    /\ effects = <<>>

\* A canvas with the "sw" backend recorded and no pixel buffer.
NoBuffer ==
    /\ alive
    /\ canvas # 0
    /\ engine_type = "sw"
    /\ buffer = 0

\* C10: on a "sw" target, a resize to other dimensions either returns true
\* with a block malloc returned for this call in buffer, or returns false
\* with buffer null; and while buffer is null, render() returns undefined,
\* and render, clear and resize leave it null unless a resize's malloc
\* succeeds.
C10_ResizeReallocates ==
    [][(/\ (/\ op' = "resize"
            /\ canvas # 0
            /\ engine_type = "sw"
            /\ ~(width = args'[1] /\ height = args'[2]))
           => \/ /\ ret' = TRUE
                 /\ buffer' # 0
                 /\ buffer' > nextObj
                 /\ <<"malloc", Bytes(args'[1], args'[2])>> \in
                       {effects'[i] : i \in 1..Len(effects')}
              \/ /\ ret' = FALSE
                 /\ buffer' = 0
        /\ (NoBuffer /\ op' \in {"render", "clear", "resize"})
           => /\ op' = "render" => ret' = <<>>
              /\ \/ NoBuffer'
                 \/ (op' = "resize" /\ ret' = TRUE /\ buffer' > nextObj))]_vars

\* A render() on a SwCanvas whose resize failed to reallocate.
C10_Witness ==
    /\ op = "render"
    /\ ret = <<>>
    /\ NoBuffer
    /\ canvasKind = "sw"

\* len bytes are exactly w * h * 4 (compared in units of 4 bytes).
ExactBytes(len, w, h) == len % 4 = 0 /\ len \div 4 = w * h

\* The last call was a createCanvas("sw", ...) in which setup and both
\* allocations succeeded.
SwCreated ==
    /\ op = "createCanvas"
    /\ args[1] = "sw"
    /\ Len(effects) = 4
    /\ effects[4][1] = "target"

\* C11: a createCanvas("sw", sel, w, h) in which setup and both allocations
\* succeed returns a non-zero handle equal to getCanvas(), records "sw",
\* makes size() report {w, h} and render() return a view of exactly
\* w * h * 4 bytes over the live buffer; after a createCanvas("gl" or "wg")
\* render() returns undefined.
C11_SwCreate ==
    /\ SwCreated =>
          /\ ret # 0
          /\ ret = GetCanvas
          /\ GetEngineType = "sw"
          /\ SizeValue = <<args[2], args[3]>>
          /\ RenderValue # <<>>
          /\ RenderValue[2] = buffer
          /\ buffer # 0
          /\ freed[buffer] = 0
          /\ ExactBytes(RenderValue[1], args[2], args[3])
    /\ (op = "createCanvas" /\ args[1] \in {"gl", "wg"}) => RenderValue = <<>>

\* C11 without the exactness of the view's length.
C11_SwCreateModuloWrap ==
    /\ SwCreated =>
          /\ ret # 0
          /\ ret = GetCanvas
          /\ GetEngineType = "sw"
          /\ SizeValue = <<args[2], args[3]>>
          /\ RenderValue = <<Bytes(args[2], args[3]), buffer>>
          /\ buffer # 0
          /\ freed[buffer] = 0
    /\ (op = "createCanvas" /\ args[1] \in {"gl", "wg"}) => RenderValue = <<>>

\* C12: clear() returns false without a canvas and true with one, and
\* leaves width, height, backend, buffer, native handles and canvas as they
\* were, so that size() and render() are the same before and after.
C12_ClearKeepsTarget ==
    [][(op' = "clear"
          => /\ ret' = (canvas # 0)
             /\ UNCHANGED <<width, height, engine_type, buffer, gl_context,
                            surface, canvas, bound, freed, nextObj>>
             /\ SizeValue' = SizeValue
             /\ RenderValue' = RenderValue
             /\ GetCanvas' = GetCanvas)]_vars

\* A clear() on a software target with its buffer.
C12_Witness ==
    /\ op = "clear"
    /\ ret = TRUE
    /\ RenderValue # <<>>

\* The engine object holds no canvas, buffer, GL context or surface.
Empty ==
    /\ canvas = 0
    /\ buffer = 0
    /\ gl_context = 0
    /\ surface = 0

\* C13: on an object that holds nothing, createCanvas with a name that
\* matches no backend returns 0, allocates and releases nothing and leaves
\* canvas, buffer, GL context and surface empty; afterwards resize and clear
\* return false, render returns undefined, and the destructor frees nothing.
C13_UnknownBackend ==
    [][(/\ (Empty /\ op' = "createCanvas" /\ args'[1] = "xyz")
           => /\ ret' = 0
              /\ Empty'
              /\ nextObj' = nextObj
              /\ freed' = freed
              /\ \A i \in 1..Len(effects') :
                    effects'[i][1] \in {"Initializer::init", "Text::load"}
        /\ (alive /\ Empty /\ engine_type = "xyz")
           => /\ op' \in {"resize", "clear"} => ret' = FALSE
              /\ op' = "render" => ret' = <<>>
              /\ op' = "destroy" =>
                    /\ freed' = freed
                    /\ effects' = <<<<"Initializer::term", 0>>>>)]_vars

\* A resize on an object whose only createCanvas named an unknown backend
\* after a successful setup.
C13_Witness ==
    /\ op = "resize"
    /\ ret = FALSE
    /\ engine_type = "xyz"
    /\ Empty
    /\ nextObj = 0

\* C14: on an object with at most one createCanvas call, no object is
\* released twice, after the destructor every pixel buffer, GL context and
\* surface the object obtained has been released exactly once, a GL context
\* or surface is released only by the destructor, and a pixel buffer only
\* by the destructor or by the resize that replaces it.
C14_SingleRelease ==
    [][(/\ creates' <= 1 => \A o \in Objects : freed'[o] <= 1
        /\ (~alive' /\ creates' <= 1)
           => \A o \in Objects :
                 objKind'[o] \in {"buffer", "gl", "surface"} => freed'[o] = 1
        /\ \A o \in Objects :
              freed'[o] > freed[o] =>
                 /\ objKind'[o] \in {"gl", "surface"} => op' = "destroy"
                 /\ objKind'[o] = "buffer" =>
                       \/ op' = "destroy"
                       \/ (op' = "resize" /\ buffer = o /\ buffer' # o))]_vars

\* A destroyed object, created once, whose first buffer a resize replaced.
C14_Witness ==
    /\ ~alive
    /\ creates = 1
    /\ buffer # 0
    /\ \E o \in Objects : objKind[o] = "buffer" /\ o # buffer /\ freed[o] = 1
    /\ freed[buffer] = 1

\* C19: over the lifetime of an engine object the number of
\* Initializer::term() calls it made equals the number of Initializer::init()
\* calls it made that succeeded.
C19_SetupTeardownBalanced ==
    ~alive => teardowns = setups

\* C15: when the caller keeps calling init(), every request completes and
\* term() is not called, init() eventually returns Ready or Failed: Ready
\* once both requests have succeeded, Failed once one has failed, and
\* Ready only if both succeeded, Failed only if one failed.
C15_PollingTerminates ==
    /\ <>(lastInit \in {Ready, Failed})
    /\ (device # 0) ~> (lastInit = Ready)
    /\ initializationFailed ~> (lastInit = Failed)
    /\ [](lastInit = Ready => (adapter # 0 /\ device # 0 /\ ~initializationFailed))
    /\ [](lastInit = Failed => initializationFailed)

\* The device request failed after the adapter request had succeeded, and
\* init() returned Failed.
C15_Witness ==
    /\ lastInit = Failed
    /\ adapter # 0
    /\ device = 0
    /\ deviceRequested
    /\ inflight = {}

\* C16: whenever resize(w, h) returns true with the "sw" backend recorded,
\* size() reports {w, h} and render() returns a non-empty view of exactly
\* w * h * 4 bytes.
C16_ResizeTrueGivesView ==
    (op = "resize" /\ ret = TRUE /\ engine_type = "sw")
       => /\ SizeValue = args
          /\ RenderValue # <<>>
          /\ ExactBytes(RenderValue[1], args[1], args[2])

\* C17: the bytes asked of malloc by createCanvas("sw") and by resize on a
\* "sw" target, and the length of the view render() returns, are the
\* product width * height * 4 (no wrap modulo 2^32), so the block holds the
\* width x height pixels the canvas is bound to.
C17_NoWrap ==
    /\ (op \in {"createCanvas", "resize"} /\ alive)
          => \A i \in 1..Len(effects) :
                effects[i][1] = "malloc" => ExactBytes(effects[i][2], width, height)
    /\ (alive /\ HasView) => ExactBytes(RenderValue[1], width, height)

\* C18: while a "sw" engine object holds a SwCanvas, the canvas is bound to
\* the object's current buffer, that buffer is allocated and not freed, and
\* the binding has the recorded width and height.
C18_BoundToLiveBuffer ==
    (alive /\ canvas # 0 /\ canvasKind = "sw" /\ engine_type = "sw")
       => /\ bound.kind = "sw"
          /\ bound.data = <<buffer>>
          /\ buffer # 0
          /\ freed[buffer] = 0
          /\ bound.w = width
          /\ bound.h = height
\* C20: at most one adapter request and at most one device request are in
\* flight at any time, no handle is released twice, and every handle a
\* successful completion callback delivered is either still stored in the
\* GPUContext (adapter or device) and unreleased, or was released by term()
\* exactly once -- for every interleaving of init(), term() and callbacks.
C20_SingleRequestSingleRelease ==
    /\ \A k \in {"adapter", "device"} :
          Cardinality({r \in inflight : r.kind = k}) <= 1
    /\ \A h \in Handles : released[h] <= 1
    /\ \A h \in delivered :
          \/ h \in {adapter, device} /\ released[h] = 0
          \/ h \notin {adapter, device} /\ released[h] = 1

====
